---------------------------- MODULE Spec2Model ----------------------------
(***************************************************************************)
(* A model of src/src/data_processor.py (and of factorial in               *)
(* src/src/calculator.py): the table utilities built on                    *)
(* pandas DataFrames, the CSV loader, the JSON save/load helpers and the   *)
(* generator of sample data with numpy's global random generator.          *)
(*                                                                         *)
(* A DataFrame is a record                                                 *)
(*   [columns, dtypes, rows, index]                                        *)
(* columns : sequence of column names                                      *)
(* dtypes  : sequence of dtype tags, one per column ("int64", "float64",   *)
(*           "object")                                                     *)
(* rows    : sequence of rows, each a sequence of cells, one per column    *)
(* index   : sequence of row labels, one per row                           *)
(* A cell is a number (an exact rational n/d), a text, or the missing      *)
(* marker (NaN / None).                                                    *)
(***************************************************************************)
EXTENDS Integers, Sequences, FiniteSets, TLC

VARIABLES
    df,     \* the table the caller holds
    call,   \* the call made last: the function and its arguments
    ret,    \* what that call returned or raised
    files,  \* the file system: path -> file
    saved,  \* per path, the mapping the caller last saved there successfully
    rng,    \* the state of numpy's global generator (np.random)
    made    \* per num_rows, what create_sample_data returned the first time

vars == <<df, call, ret, files, saved, rng, made>>

(***************************************************************************)
(* Bounds of the model.                                                    *)
(***************************************************************************)
MaxRows == 3

MaxItems == 1

MaxSample == 2

MaxLines == 2

MaxShort == 1

MaxPairs == 2

(***************************************************************************)
(* Cells.                                                                  *)
(***************************************************************************)
RECURSIVE GCD(_, _)
GCD(a, b) == IF b = 0 THEN a ELSE GCD(b, a % b)

Abs(n) == IF n < 0 THEN -n ELSE n

NaN == [k |-> "nan", n |-> 0, d |-> 1, s |-> ""]

Str(s) == [k |-> "str", n |-> 0, d |-> 1, s |-> s]

\* the number n/d (d > 0), in lowest terms
Rat(n, d) ==
    LET g == GCD(Abs(n), d)
    IN  [k |-> "num", n |-> n \div g, d |-> d \div g, s |-> ""]

Num(n) == Rat(n, 1)

isna(c) == c.k = "nan"

IsNum(c) == c.k = "num"

IsStr(c) == c.k = "str"

IsInt(c) == c.k = "num" /\ c.d = 1

\* a < b on numbers
NumLess(a, b) == a.n * b.d < b.n * a.d

\* Lexicographic order of the texts the model uses.
Strings ==
    << "A", "Alice", "B", "Bob", "Charlie", "Diana", "Engineering", "Eve",
       "Marketing", "Nonexistent", "Sales" >>

StrRank(s) == CHOOSE i \in 1..Len(Strings) : Strings[i] = s

StrLess(a, b) == StrRank(a.s) < StrRank(b.s)

\* a < b on cells of one kind (numbers, or texts)
CellLess(a, b) == IF IsNum(a) THEN NumLess(a, b) ELSE StrLess(a, b)

(***************************************************************************)
(* DataFrames.                                                             *)
(***************************************************************************)
Range(s) == {s[i] : i \in 1..Len(s)}

RangeIndex(n) == [i \in 1..n |-> i - 1]

\* dtype inference of pd.DataFrame(data) on a column's cells: text, or
\* nothing but None, gives object; integers give int64; numbers with a
\* missing value or a fraction give float64
InferDtype(cells) ==
    IF \E c \in cells : IsStr(c) THEN "object"
    ELSE IF \A c \in cells : isna(c) THEN "object"
    ELSE IF \A c \in cells : IsInt(c) THEN "int64"
    ELSE "float64"

\* pd.DataFrame(data): data is a sequence of rows
DataFrame(columns, rows) ==
    [columns |-> columns,
     dtypes  |-> [j \in 1..Len(columns) |->
                    InferDtype({rows[i][j] : i \in 1..Len(rows)})],
     rows    |-> rows,
     index   |-> RangeIndex(Len(rows))]

Columns(t) == Range(t.columns)

ColPos(t, c) == CHOOSE j \in 1..Len(t.columns) : t.columns[j] = c

\* df[column]: the cells of a column, in row order
Series(t, c) == [i \in 1..Len(t.rows) |-> t.rows[i][ColPos(t, c)]]

Dtype(t, c) == t.dtypes[ColPos(t, c)]

\* df[mask]: the rows at the positions where the boolean mask holds, labels
\* kept
Take(t, mask) ==
    LET pos == SelectSeq([i \in 1..Len(t.rows) |-> i], LAMBDA i : mask[i])
    IN  [t EXCEPT !.rows  = [k \in 1..Len(pos) |-> t.rows[pos[k]]],
                  !.index = [k \in 1..Len(pos) |-> t.index[pos[k]]]]

\* df.dropna(): drop the rows holding a missing value in any column
dropna(t) ==
    Take(t, [i \in 1..Len(t.rows) |->
               \A j \in 1..Len(t.columns) : ~isna(t.rows[i][j])])

\* mutant of drop_duplicates: subset=[first column], rows count as duplicates
\* when they agree in the first column
drop_duplicates_subset(t) ==
    Take(t, [i \in 1..Len(t.rows) |->
               \A h \in 1..(i - 1) : t.rows[h][1] # t.rows[i][1]])

\* mutant of drop_duplicates: keep='last', the last of each set is kept
drop_duplicates_last(t) ==
    Take(t, [i \in 1..Len(t.rows) |->
               \A h \in (i + 1)..Len(t.rows) : t.rows[h] # t.rows[i]])

\* df.drop_duplicates(): keep the first of each set of identical rows
drop_duplicates(t) ==
    Take(t, [i \in 1..Len(t.rows) |->
               \A h \in 1..(i - 1) : t.rows[h] # t.rows[i]])

\* mutant of reset_index: drop=True forgotten, the old labels become a column
reset_index_nodrop(t) ==
    [columns |-> <<(IF "index" \in Range(t.columns) THEN "level_0" ELSE "index")>>
                    \o t.columns,
     dtypes  |-> <<"int64">> \o t.dtypes,
     rows    |-> [i \in 1..Len(t.rows) |-> <<Num(t.index[i])>> \o t.rows[i]],
     index   |-> RangeIndex(Len(t.rows))]

\* df.reset_index(drop=True)
reset_index(t) == [t EXCEPT !.index = RangeIndex(Len(t.rows))]

(***************************************************************************)
(* Results of a call: a returned value or a raised exception.              *)
(***************************************************************************)
NoTable == [columns |-> <<>>, dtypes |-> <<>>, rows |-> <<>>, index |-> <<>>]

\* (is_df: whether the object returned is the object that was passed as df)
NoRet ==
    [kind |-> "none", err |-> "", msg |-> "", table |-> NoTable,
     rec |-> <<>>, value |-> <<>>, bool |-> FALSE, is_df |-> FALSE]

ReturnTable(t) == [NoRet EXCEPT !.kind = "table", !.table = t]

Raise(err, msg) == [NoRet EXCEPT !.kind = "error", !.err = err, !.msg = msg]

(***************************************************************************)
(* clean_data                                                              *)
(***************************************************************************)
\* mutant of clean_data: the index not reset
clean_data_noreset(t) == ReturnTable(drop_duplicates(dropna(t)))

clean_data(t) == ReturnTable(reset_index(drop_duplicates(dropna(t))))

(***************************************************************************)
(* filter_by_column                                                        *)
(***************************************************************************)
\* one element of the mask  df[column] == value : a missing cell compares
\* unequal to everything, and so does a missing value
eq(cell, value) == ~isna(cell) /\ ~isna(value) /\ cell = value

\* df[df[column] == value]
mask_rows(t, column, value) ==
    Take(t, [i \in 1..Len(t.rows) |-> eq(Series(t, column)[i], value)])

\* mutants of filter_by_column: the index left as the mask selected it; the
\* column check dropped (an absent column selects nothing)
filter_by_column_noreset(t, column, value) ==
    IF column \notin Columns(t)
    THEN Raise("KeyError", "Column not found in DataFrame")
    ELSE ReturnTable(mask_rows(t, column, value))

filter_by_column_nocheck(t, column, value) ==
    IF column \notin Columns(t)
    THEN ReturnTable(reset_index(Take(t, [i \in 1..Len(t.rows) |-> FALSE])))
    ELSE ReturnTable(reset_index(mask_rows(t, column, value)))

filter_by_column(t, column, value) ==
    IF column \notin Columns(t)
    THEN Raise("KeyError", "Column not found in DataFrame")
    ELSE ReturnTable(reset_index(mask_rows(t, column, value)))

(***************************************************************************)
(* Exact arithmetic on number cells.                                       *)
(***************************************************************************)
Add(a, b) == Rat(a.n * b.d + b.n * a.d, a.d * b.d)

Sub(a, b) == Rat(a.n * b.d - b.n * a.d, a.d * b.d)

Mul(a, b) == Rat(a.n * b.n, a.d * b.d)

\* a / m for an integer m > 0
DivInt(a, m) == Rat(a.n, a.d * m)

RECURSIVE SumSeq(_)
SumSeq(s) == IF s = <<>> THEN Num(0) ELSE Add(Head(s), SumSeq(Tail(s)))

\* the square root of a number >= 0, kept as its radicand
Sqrt(a) == [a EXCEPT !.k = "sqrt"]

\* the non-missing cells of a sequence of cells (skipna)
NotNa(s) == SelectSeq(s, LAMBDA c : ~isna(c))

(***************************************************************************)
(* Series reductions, as pandas computes them (missing values skipped).    *)
(***************************************************************************)
\* mutant of series_count: len(s), the missing values counted too
series_count_rows(s) == Num(Len(s))

series_count(s) == Num(Len(NotNa(s)))

series_sum(s) == SumSeq(NotNa(s))

series_mean(s) ==
    LET v == NotNa(s)
    IN  IF v = <<>> THEN NaN ELSE DivInt(SumSeq(v), Len(v))

series_median(s) ==
    LET v == SortSeq(NotNa(s), NumLess)
        n == Len(v)
    IN  IF n = 0 THEN NaN
        ELSE IF n % 2 = 1 THEN v[(n + 1) \div 2]
        ELSE DivInt(Add(v[n \div 2], v[n \div 2 + 1]), 2)

\* sample standard deviation (ddof = 1)
series_std(s) ==
    LET v == NotNa(s)
        n == Len(v)
        m == series_mean(s)
        sq == [i \in 1..n |-> Mul(Sub(v[i], m), Sub(v[i], m))]
    IN  IF n < 2 THEN NaN ELSE Sqrt(DivInt(SumSeq(sq), n - 1))

series_min(s) ==
    LET v == SortSeq(NotNa(s), CellLess)
    IN  IF v = <<>> THEN NaN ELSE v[1]

series_max(s) ==
    LET v == SortSeq(NotNa(s), CellLess)
    IN  IF v = <<>> THEN NaN ELSE v[Len(v)]

(***************************************************************************)
(* calculate_statistics                                                    *)
(***************************************************************************)
\* pd.api.types.is_numeric_dtype
is_numeric_dtype(dtype) == dtype \in {"int64", "float64"}

ReturnRecord(r) == [NoRet EXCEPT !.kind = "record", !.rec = r]

statistics_record(s) ==
    [mean   |-> series_mean(s),
     median |-> series_median(s),
     std    |-> series_std(s),
     min    |-> series_min(s),
     max    |-> series_max(s),
     count  |-> series_count(s)]

\* mutant of calculate_statistics: the dtype check dropped
calculate_statistics_nodtype(t, column) ==
    IF column \notin Columns(t)
    THEN Raise("KeyError", "Column not found in DataFrame")
    ELSE ReturnRecord(statistics_record(Series(t, column)))

calculate_statistics(t, column) ==
    IF column \notin Columns(t)
    THEN Raise("KeyError", "Column not found in DataFrame")
    ELSE IF ~is_numeric_dtype(Dtype(t, column))
    THEN Raise("ValueError", "Column is not numeric")
    ELSE ReturnRecord(statistics_record(Series(t, column)))

(***************************************************************************)
(* group_by_column                                                         *)
(***************************************************************************)
valid_operations == {"mean", "sum", "count", "min", "max"}

\* the elements of a sequence, each once, in order of first occurrence
Unique(s) ==
    LET pos == SelectSeq([i \in 1..Len(s) |-> i],
                         LAMBDA i : \A h \in 1..(i - 1) : s[h] # s[i])
    IN  [k \in 1..Len(pos) |-> s[pos[k]]]

\* mutant of group_keys: the keys in order of first occurrence (sort=False)
group_keys_first_seen(t, g) == Unique(NotNa(Series(t, g)))

\* df.groupby(g): the group keys are the distinct non-missing values of the
\* column, sorted (dropna=True, sort=True are the defaults)
group_keys(t, g) == SortSeq(Unique(NotNa(Series(t, g))), CellLess)

\* mutant of group_values: the whole column, whatever the group
group_values_all(t, g, a, key) == Series(t, a)

\* grouped[a] for one key: the cells of column a in the rows of the group
group_values(t, g, a, key) ==
    LET pos == SelectSeq([i \in 1..Len(t.rows) |-> i],
                         LAMBDA i : Series(t, g)[i] = key)
    IN  [k \in 1..Len(pos) |-> Series(t, a)[pos[k]]]

RECURSIVE Concat(_)
Concat(s) == IF s = <<>> THEN "" ELSE Head(s).s \o Concat(Tail(s))

\* sum over an object column of texts: concatenation, 0 for no text
text_sum(s) ==
    LET v == NotNa(s)
    IN  IF v = <<>> THEN Num(0) ELSE Str(Concat(v))

\* grouped.mean() / .sum() / .count() / .min() / .max() on one group
aggregate(s, dtype, operation) ==
    CASE operation = "count" -> series_count(s)
      [] operation = "sum"   ->
            IF dtype = "object" THEN text_sum(s) ELSE series_sum(s)
      [] operation = "mean"  ->
            IF dtype = "object" THEN NaN ELSE series_mean(s)
      [] operation = "min"   -> series_min(s)
      [] operation = "max"   -> series_max(s)

aggregate_dtype(dtype, operation) ==
    CASE operation = "count" -> "int64"
      [] operation = "mean"  -> "float64"
      [] OTHER               -> dtype

\* pandas refuses the mean of text in every version
agg_must_raise(t, g, a, operation) ==
    /\ Dtype(t, a) = "object"
    /\ operation = "mean"
    /\ \E i \in 1..Len(t.rows) :
          ~isna(Series(t, g)[i]) /\ IsStr(Series(t, a)[i])

\* reductions of an object column that some pandas versions refuse and
\* others compute skipping the missing values
agg_may_raise(t, g, a, operation) ==
    /\ Dtype(t, a) = "object"
    /\ \/ operation = "mean"
       \/ /\ operation \in {"sum", "min", "max"}
          /\ \E i \in 1..Len(t.rows) :
                ~isna(Series(t, g)[i]) /\ isna(Series(t, a)[i])

\* result.reset_index() of the aggregated Series: the group keys become the
\* first column; the insert fails if the Series has the same name
series_reset_index(t, g, a, operation) ==
    LET keys == group_keys(t, g)
    IN  IF g = a
        THEN Raise("ValueError", "cannot insert, already exists")
        ELSE ReturnTable(
               [columns |-> <<g, a>>,
                dtypes  |-> <<Dtype(t, g),
                              aggregate_dtype(Dtype(t, a), operation)>>,
                rows    |-> [k \in 1..Len(keys) |->
                               <<keys[k],
                                 aggregate(group_values(t, g, a, keys[k]),
                                           Dtype(t, a), operation)>>],
                index   |-> RangeIndex(Len(keys))])

\* mutant of group_by_column: the operation checked before the columns
group_by_column_opfirst(t, group_column, agg_column, operation) ==
    IF operation \notin valid_operations
    THEN {Raise("ValueError", "Operation not supported")}
    ELSE IF group_column \notin Columns(t)
    THEN {Raise("KeyError", "Group column not found in DataFrame")}
    ELSE IF agg_column \notin Columns(t)
    THEN {Raise("KeyError", "Aggregation column not found in DataFrame")}
    ELSE {series_reset_index(t, group_column, agg_column, operation)}

\* the results the call can have
group_by_column(t, group_column, agg_column, operation) ==
    IF group_column \notin Columns(t)
    THEN {Raise("KeyError", "Group column not found in DataFrame")}
    ELSE IF agg_column \notin Columns(t)
    THEN {Raise("KeyError", "Aggregation column not found in DataFrame")}
    ELSE IF operation \notin valid_operations
    THEN {Raise("ValueError", "Operation not supported")}
    ELSE IF agg_must_raise(t, group_column, agg_column, operation)
    THEN {Raise("TypeError", "agg function failed")}
    ELSE IF agg_may_raise(t, group_column, agg_column, operation)
    THEN {Raise("TypeError", "agg function failed"),
          series_reset_index(t, group_column, agg_column, operation)}
    ELSE {series_reset_index(t, group_column, agg_column, operation)}

(***************************************************************************)
(* Python values handed to save_to_json and returned by load_from_json.    *)
(* A dict is the sequence of its <<key, value>> items in insertion order.  *)
(***************************************************************************)
PyInt(n) == [t |-> "int", n |-> n, s |-> "", items |-> <<>>]

PyStr(s) == [t |-> "str", n |-> 0, s |-> s, items |-> <<>>]

PyBool(b) == [t |-> "bool", n |-> IF b THEN 1 ELSE 0, s |-> "", items |-> <<>>]

PyNone == [t |-> "none", n |-> 0, s |-> "", items |-> <<>>]

\* float('nan')
PyNaN == [t |-> "float", n |-> 0, s |-> "nan", items |-> <<>>]

PyList(items) == [t |-> "list", n |-> 0, s |-> "", items |-> items]

PyTuple(items) == [t |-> "tuple", n |-> 0, s |-> "", items |-> items]

PyDict(items) == [t |-> "dict", n |-> 0, s |-> "", items |-> items]

\* a value json cannot serialize (a set, an object)
PySet == [t |-> "set", n |-> 0, s |-> "", items |-> <<>>]

\* Python's ==
RECURSIVE PyEq(_, _)
PyEq(a, b) ==
    CASE a.t = "float" \/ b.t = "float" -> FALSE
      [] a.t \in {"int", "bool"} /\ b.t \in {"int", "bool"} -> a.n = b.n
      [] a.t \in {"list", "tuple"} /\ b.t = a.t ->
            /\ Len(a.items) = Len(b.items)
            /\ \A i \in 1..Len(a.items) : PyEq(a.items[i], b.items[i])
      [] a.t = "dict" /\ b.t = "dict" ->
            /\ Len(a.items) = Len(b.items)
            /\ \A i \in 1..Len(a.items) : \E h \in 1..Len(b.items) :
                  /\ PyEq(a.items[i][1], b.items[h][1])
                  /\ PyEq(a.items[i][2], b.items[h][2])
      [] OTHER -> a = b

(***************************************************************************)
(* JSON text, as the sequence of its tokens (white space, and with it the  *)
(* indentation, is not significant to the parser and not represented).     *)
(***************************************************************************)
Tok(t) == [t |-> t, n |-> 0, s |-> ""]

TokString(s) == [t |-> "string", n |-> 0, s |-> s]

TokNumber(n) == [t |-> "number", n |-> n, s |-> ""]

\* json.encoder: the chunks written for a value, and whether the encoder
\* got to its end; it raises TypeError at the first value or key it cannot
\* serialize, after the chunks before it were written.
Chunks(toks, ok) == [toks |-> toks, ok |-> ok]

\* a dict key as the encoder writes it: str as is, int as its decimal text,
\* True/False/None as true/false/null; others are refused
key_text(k) ==
    CASE k.t = "str"  -> k.s
      [] k.t = "int"  -> ToString(k.n)
      [] k.t = "bool" -> IF k.n = 1 THEN "true" ELSE "false"
      [] k.t = "none" -> "null"
      [] k.t = "float" -> "NaN"
      [] OTHER -> ""

key_ok(k) == k.t \in {"str", "int", "bool", "none", "float"}

RECURSIVE iterencode(_), iterencode_list(_, _), iterencode_dict(_, _)
iterencode(o) ==
    CASE o.t = "str"   -> Chunks(<<TokString(o.s)>>, TRUE)
      [] o.t = "none"  -> Chunks(<<Tok("null")>>, TRUE)
      [] o.t = "bool"  -> Chunks(<<Tok(IF o.n = 1 THEN "true" ELSE "false")>>, TRUE)
      [] o.t = "int"   -> Chunks(<<TokNumber(o.n)>>, TRUE)
      [] o.t = "float" -> Chunks(<<Tok("NaN")>>, TRUE)
      [] o.t \in {"list", "tuple"} ->
            IF o.items = <<>> THEN Chunks(<<Tok("["), Tok("]")>>, TRUE)
            ELSE LET r == iterencode_list(o.items, TRUE)
                 IN  IF r.ok THEN Chunks(r.toks \o <<Tok("]")>>, TRUE) ELSE r
      [] o.t = "dict"  ->
            IF o.items = <<>> THEN Chunks(<<Tok("{"), Tok("}")>>, TRUE)
            ELSE LET r == iterencode_dict(o.items, TRUE)
                 IN  IF r.ok
                     THEN Chunks(<<Tok("{")>> \o r.toks \o <<Tok("}")>>, TRUE)
                     ELSE Chunks(<<Tok("{")>> \o r.toks, FALSE)
      [] OTHER -> Chunks(<<>>, FALSE)

iterencode_list(items, first) ==
    IF items = <<>> THEN Chunks(<<>>, TRUE)
    ELSE LET buf  == IF first THEN <<Tok("[")>> ELSE <<Tok(",")>>
             head == iterencode(Head(items))
             rest == iterencode_list(Tail(items), FALSE)
         IN  IF ~head.ok THEN Chunks(buf \o head.toks, FALSE)
             ELSE Chunks(buf \o head.toks \o rest.toks, rest.ok)

iterencode_dict(items, first) ==
    IF items = <<>> THEN Chunks(<<>>, TRUE)
    ELSE LET key  == Head(items)[1]
             sep  == IF first THEN <<>> ELSE <<Tok(",")>>
             head == iterencode(Head(items)[2])
             pre  == sep \o <<TokString(key_text(key)), Tok(":")>>
             rest == iterencode_dict(Tail(items), FALSE)
         IN  IF ~key_ok(key) THEN Chunks(<<>>, FALSE)
             ELSE IF ~head.ok THEN Chunks(pre \o head.toks, FALSE)
             ELSE Chunks(pre \o head.toks \o rest.toks, rest.ok)

\* json.decoder: the value parsed from the front of a token sequence and the
\* tokens left, or a failure
Parsed(val, rest) == [ok |-> TRUE, val |-> val, rest |-> rest]

ParseError == [ok |-> FALSE, val |-> PyNone, rest |-> <<>>]

\* d[key] = val on the items of a dict
dict_set(items, key, val) ==
    IF \E i \in 1..Len(items) : items[i][1] = key
    THEN [i \in 1..Len(items) |->
            IF items[i][1] = key THEN <<key, val>> ELSE items[i]]
    ELSE Append(items, <<key, val>>)

RECURSIVE parse_value(_), parse_array(_, _), parse_object(_, _)
parse_value(toks) ==
    IF toks = <<>> THEN ParseError
    ELSE LET h == Head(toks)
             r == Tail(toks)
         IN  CASE h.t = "string" -> Parsed(PyStr(h.s), r)
               [] h.t = "number" -> Parsed(PyInt(h.n), r)
               [] h.t = "true"   -> Parsed(PyBool(TRUE), r)
               [] h.t = "false"  -> Parsed(PyBool(FALSE), r)
               [] h.t = "null"   -> Parsed(PyNone, r)
               [] h.t = "NaN"    -> Parsed(PyNaN, r)
               [] h.t = "["      ->
                     IF r # <<>> /\ Head(r).t = "]"
                     THEN Parsed(PyList(<<>>), Tail(r))
                     ELSE parse_array(r, <<>>)
               [] h.t = "{"      ->
                     IF r # <<>> /\ Head(r).t = "}"
                     THEN Parsed(PyDict(<<>>), Tail(r))
                     ELSE parse_object(r, <<>>)
               [] OTHER -> ParseError

\* the elements of an array after "[" or ",": a value, then "," or "]"
parse_array(toks, acc) ==
    LET v == parse_value(toks)
    IN  IF ~v.ok \/ v.rest = <<>> THEN ParseError
        ELSE IF Head(v.rest).t = "]"
        THEN Parsed(PyList(Append(acc, v.val)), Tail(v.rest))
        ELSE IF Head(v.rest).t = ","
        THEN parse_array(Tail(v.rest), Append(acc, v.val))
        ELSE ParseError

\* the members of an object after "{" or ",": "key" : value, then "," or "}"
parse_object(toks, acc) ==
    IF Len(toks) < 2 \/ toks[1].t # "string" \/ toks[2].t # ":" THEN ParseError
    ELSE LET v == parse_value(SubSeq(toks, 3, Len(toks)))
             items == dict_set(acc, PyStr(toks[1].s), v.val)
         IN  IF ~v.ok \/ v.rest = <<>> THEN ParseError
             ELSE IF Head(v.rest).t = "}"
             THEN Parsed(PyDict(items), Tail(v.rest))
             ELSE IF Head(v.rest).t = ","
             THEN parse_object(Tail(v.rest), items)
             ELSE ParseError

(***************************************************************************)
(* The file system: each path holds a file (its tokens) or nothing.        *)
(***************************************************************************)
Absent == [exists |-> FALSE, content |-> <<>>]

File(content) == [exists |-> TRUE, content |-> content]

\* a path whose directory exists, and one whose directory does not
Paths == {"data.json", "missing_dir/data.json"}

Writable(path) == path = "data.json"

\* what the caller knows a path to hold
NotSaved == [known |-> FALSE, data |-> PyNone]

Saved(data) == [known |-> TRUE, data |-> data]

ReturnNone == [NoRet EXCEPT !.kind = "ok"]

ReturnValue(v) == [NoRet EXCEPT !.kind = "mapping", !.value = v]

\* json.dump(data, f, indent=2): the tokens written and whether it finished
json_dump(data) == iterencode(data)

\* save_to_json: the file after the call, and the result.  open(path, 'w')
\* creates or truncates the file; the chunks json.dump wrote before it raised
\* are in the file when the with block closes it.
\* mutant of save_to_json_file: the file opened with 'a' instead of 'w'
save_to_json_append(fs, data, file_path) ==
    IF ~Writable(file_path) THEN fs
    ELSE [fs EXCEPT ![file_path] =
            File(fs[file_path].content \o json_dump(data).toks)]

\* mutant of save_to_json_file: the file opened with 'r+' instead of 'w', so
\* the new text is written over the start of the old and the rest stays
save_to_json_notrunc(fs, data, file_path) ==
    IF ~Writable(file_path) THEN fs
    ELSE [fs EXCEPT ![file_path] =
            File(json_dump(data).toks
                   \o SubSeq(fs[file_path].content,
                             Len(json_dump(data).toks) + 1,
                             Len(fs[file_path].content)))]

save_to_json_file(fs, data, file_path) ==
    IF ~Writable(file_path) THEN fs
    ELSE [fs EXCEPT ![file_path] = File(json_dump(data).toks)]

save_to_json_ret(fs, data, file_path) ==
    IF ~Writable(file_path)
    THEN Raise("FileNotFoundError", "No such file or directory")
    ELSE IF ~json_dump(data).ok
    THEN Raise("TypeError", "not JSON serializable")
    ELSE ReturnNone

\* json.load(f): the whole content must be one JSON value
json_load(content) ==
    LET r == parse_value(content)
    IN  IF r.ok /\ r.rest = <<>> THEN ReturnValue(r.val)
        ELSE Raise("JSONDecodeError", "invalid JSON")

\* mutant of load_from_json: the existence check dropped and the file opened
\* with a mode that creates it, so an absent file reads as an empty one
load_from_json_nocheck(fs, file_path) == json_load(fs[file_path].content)

load_from_json(fs, file_path) ==
    IF ~fs[file_path].exists
    THEN Raise("FileNotFoundError", "File not found")
    ELSE json_load(fs[file_path].content)

(***************************************************************************)
(* validate_data_types.  expected_types is a dict: the sequence of its     *)
(* <<column, expected_type>> items in insertion order.                     *)
(***************************************************************************)
ReturnBool(b) == [NoRet EXCEPT !.kind = "bool", !.bool = b]

\* a in b on strings: a occurs in b as a run of consecutive characters
contains(b, a) ==
    \E i \in 0..(Len(b) - Len(a)) : SubSeq(b, i + 1, i + Len(a)) = a

\* mutant of type_mismatch: the branch for 'string' missing
type_mismatch_nostring(actual_type, expected_type) ==
    \/ expected_type = "numeric" /\ ~is_numeric_dtype(actual_type)
    \/ /\ ~contains(actual_type, expected_type)
       /\ expected_type # "numeric"
       /\ expected_type # "string"

\* the if / elif / elif of the loop body, each of which returns False;
\* actual_type is str(df[column].dtype)
type_mismatch(actual_type, expected_type) ==
    \/ expected_type = "numeric" /\ ~is_numeric_dtype(actual_type)
    \/ expected_type = "string" /\ actual_type # "object"
    \/ /\ ~contains(actual_type, expected_type)
       /\ expected_type # "numeric"
       /\ expected_type # "string"

\* mutant of validate_data_types: an absent column skipped (continue)
RECURSIVE validate_data_types_skip(_, _)
validate_data_types_skip(t, expected_types) ==
    IF expected_types = <<>> THEN ReturnBool(TRUE)
    ELSE IF Head(expected_types)[1] \notin Columns(t)
    THEN validate_data_types_skip(t, Tail(expected_types))
    ELSE IF type_mismatch(Dtype(t, Head(expected_types)[1]),
                          Head(expected_types)[2])
    THEN ReturnBool(FALSE)
    ELSE validate_data_types_skip(t, Tail(expected_types))

\* the items are taken in order; the first that fails returns False
RECURSIVE validate_data_types(_, _)
validate_data_types(t, expected_types) ==
    IF expected_types = <<>> THEN ReturnBool(TRUE)
    ELSE IF Head(expected_types)[1] \notin Columns(t)
    THEN ReturnBool(FALSE)
    ELSE IF type_mismatch(Dtype(t, Head(expected_types)[1]),
                          Head(expected_types)[2])
    THEN ReturnBool(FALSE)
    ELSE validate_data_types(t, Tail(expected_types))

(***************************************************************************)
(* The frame passed as df, after a call.  No function of the module        *)
(* assigns into df or calls a method of it with inplace=True: dropna,      *)
(* drop_duplicates, reset_index, df[mask] and groupby build new objects.   *)
(***************************************************************************)
\* mutant of df_after: clean_data written with df.dropna(inplace=True)
df_after_inplace(function, t) ==
    IF function = "clean_data" THEN dropna(t) ELSE t

df_after(function, t) == t

(***************************************************************************)
(* load_csv_data.  A CSV file is the sequence of its lines, a line the     *)
(* sequence of its fields (texts); a blank line has no field.  The files   *)
(* of the model are rectangular: every line that is not blank has as many  *)
(* fields as the header.                                                   *)
(***************************************************************************)
\* the fields that read as integers, and the integers they read as
CsvNumbers == ("25" :> 25) @@ ("30" :> 30) @@ ("35" :> 35)

\* the dtype the parser infers for a column from its fields: object for a
\* column of no rows or with a field that is no number, int64 for numbers
\* throughout, float64 for numbers and empty fields (or empty fields alone)
csv_dtype(fields) ==
    IF fields = <<>> THEN "object"
    ELSE IF \E i \in 1..Len(fields) :
               fields[i] # "" /\ fields[i] \notin DOMAIN CsvNumbers
    THEN "object"
    ELSE IF \A i \in 1..Len(fields) : fields[i] # "" THEN "int64"
    ELSE "float64"

\* the cell a field becomes: an empty field is a missing value, a field of
\* an object column stays a text, a field of a numeric column is its number
csv_cell(field, dtype) ==
    IF field = "" THEN NaN
    ELSE IF dtype = "object" THEN Str(field)
    ELSE Num(CsvNumbers[field])

csv_frame(header, data) ==
    LET dtypes == [j \in 1..Len(header) |->
                     csv_dtype([i \in 1..Len(data) |-> data[i][j]])]
    IN  [columns |-> header,
         dtypes  |-> dtypes,
         rows    |-> [i \in 1..Len(data) |->
                        [j \in 1..Len(header) |-> csv_cell(data[i][j], dtypes[j])]],
         index   |-> RangeIndex(Len(data))]

\* mutant of read_csv: header=None, the first line read as a row and the
\* columns named by their position
read_csv_noheader(lines) ==
    LET kept == SelectSeq(lines, LAMBDA l : l # <<>>)
    IN  IF kept = <<>>
        THEN Raise("EmptyDataError", "No columns to parse from file")
        ELSE ReturnTable(csv_frame([j \in 1..Len(Head(kept)) |-> ToString(j - 1)],
                                   kept))

\* pd.read_csv(file_path): blank lines are skipped; the first line left is
\* the header; with no line left there are no columns to parse
read_csv(lines) ==
    LET kept == SelectSeq(lines, LAMBDA l : l # <<>>)
    IN  IF kept = <<>>
        THEN Raise("EmptyDataError", "No columns to parse from file")
        ELSE ReturnTable(csv_frame(Head(kept), Tail(kept)))

load_csv_data(fs, file_path) ==
    IF ~fs[file_path].exists
    THEN Raise("FileNotFoundError", "File not found")
    ELSE read_csv(fs[file_path].content)

(***************************************************************************)
(* numpy's global generator (np.random), which create_sample_data seeds    *)
(* and draws from.  The generator is a deterministic machine: a state, a   *)
(* step, and a value read off each state.  The Mersenne Twister is stood   *)
(* for by a linear congruential generator over RngModulus states, with its *)
(* multiplier and increment left open (fixed when the process starts).     *)
(***************************************************************************)
RngModulus == 32

Generator(state, mult, inc) == [state |-> state, mult |-> mult, inc |-> inc]

NoGenerator == Generator(0, 0, 0)

Generators ==
    {Generator(s, a, c) : s \in 0..(RngModulus - 1), a \in {1, 5}, c \in {1, 3}}

\* np.random.seed(s): the state is a function of the seed alone
np_random_seed(g, s) == [g EXCEPT !.state = s % RngModulus]

\* the generator after k draws
RECURSIVE advance(_, _)
advance(g, k) ==
    IF k = 0 THEN g
    ELSE advance([g EXCEPT !.state = (g.mult * g.state + g.inc) % RngModulus],
                 k - 1)

\* the raw values of the next k draws
raw(g, k) == [i \in 1..k |-> advance(g, i).state]

\* np.random.choice(a, size): one draw per element, an index into a
choice(a, x) == a[1 + (x % Len(a))]

\* np.random.normal(loc, scale, size).round(2): within four deviations of
\* loc, to two decimals
normal(loc, scale, x) ==
    Rat(100 * loc + (100 * scale * 4 * (2 * x + 1 - RngModulus)) \div RngModulus,
        100)

\* np.random.randint(low, high, size): low <= value < high
randint(low, high, x) == Num(low + (x % (high - low)))

\* np.random.uniform(low, high, size).round(2)
uniform(low, high, x) ==
    Rat(100 * low + (100 * (high - low) * x) \div RngModulus, 100)

(***************************************************************************)
(* create_sample_data                                                      *)
(***************************************************************************)
departments == <<"Engineering", "Sales", "Marketing", "HR", "Finance">>

locations == <<"New York", "San Francisco", "Chicago", "Austin", "Seattle">>

sample_columns ==
    <<"employee_id", "name", "department", "location", "salary",
      "years_experience", "performance_score">>

\* the dtypes pd.DataFrame(data) gives the arrays of the dict, whatever
\* their length
sample_dtypes ==
    <<"int64", "object", "object", "object", "float64", "int64", "float64">>

\* mutant of employee_id: range(num_rows) in place of range(1, num_rows + 1)
employee_id_from_zero(num_rows, i) == Num(i - 1)

\* 'employee_id': range(1, num_rows + 1), at row i (counted from 1)
employee_id(num_rows, i) == Num(i)

\* the columns are drawn one after the other, num_rows draws each, in the
\* order of the dict: department, location, salary, years_experience,
\* performance_score
sample_rows(g, num_rows) ==
    LET x == raw(g, 5 * num_rows)
    IN  [i \in 1..num_rows |->
          << employee_id(num_rows, i),
             Str("Employee_" \o ToString(i)),
             Str(choice(departments, x[i])),
             Str(choice(locations, x[num_rows + i])),
             normal(75000, 15000, x[2 * num_rows + i]),
             randint(0, 20, x[3 * num_rows + i]),
             uniform(1, 5, x[4 * num_rows + i]) >>]

\* the result of a call and the global generator after it
Outcome(r, g) == [ret |-> r, rng |-> g]

\* mutant of create_sample_data: the seed not set
create_sample_data_noseed(g, num_rows) ==
    IF num_rows < 0
    THEN Outcome(Raise("ValueError", "negative dimensions are not allowed"), g)
    ELSE Outcome(ReturnTable([columns |-> sample_columns,
                              dtypes  |-> sample_dtypes,
                              rows    |-> sample_rows(g, num_rows),
                              index   |-> RangeIndex(num_rows)]),
                 advance(g, 5 * num_rows))

\* np.random.seed(42) comes first; a negative num_rows makes the first
\* np.random.choice raise, after the seed was set
create_sample_data(g, num_rows) ==
    LET seeded == np_random_seed(g, 42)
    IN  IF num_rows < 0
        THEN Outcome(Raise("ValueError", "negative dimensions are not allowed"),
                     seeded)
        ELSE Outcome(ReturnTable([columns |-> sample_columns,
                                  dtypes  |-> sample_dtypes,
                                  rows    |-> sample_rows(seeded, num_rows),
                                  index   |-> RangeIndex(num_rows)]),
                     advance(seeded, 5 * num_rows))

(***************************************************************************)
(* The tables the model starts from: the fixtures of the test suite and    *)
(* every table of at most MaxRows rows over a text column and a numeric    *)
(* column, as pd.DataFrame(data) builds them (dtypes inferred, RangeIndex). *)
(***************************************************************************)
\* tests/test_data_processor.py, fixture sample_dataframe
sample_dataframe ==
    DataFrame(<<"name", "age", "department", "salary", "years_experience">>,
      << <<Str("Alice"),   Num(25), Str("Engineering"), Num(75000), Num(3)>>,
         <<Str("Bob"),     Num(30), Str("Sales"),       Num(65000), Num(5)>>,
         <<Str("Charlie"), Num(35), Str("Engineering"), Num(85000), Num(8)>>,
         <<Str("Diana"),   Num(28), Str("Marketing"),   Num(60000), Num(2)>>,
         <<Str("Eve"),     Num(32), Str("Sales"),       Num(70000), Num(6)>> >>)

\* fixture dirty_dataframe
dirty_dataframe ==
    DataFrame(<<"name", "age", "score">>,
      << <<Str("Alice"), Num(25), Rat(171, 2)>>,
         <<Str("Bob"),   Num(30), Num(90)>>,
         <<NaN,          Num(35), Rat(157, 2)>>,
         <<Str("Bob"),   Num(30), Num(90)>>,
         <<Str("Eve"),   NaN,     Num(88)>>,
         <<Str("Alice"), Num(25), Rat(171, 2)>> >>)

\* fixture numeric_dataframe
numeric_dataframe ==
    DataFrame(<<"values", "scores", "category">>,
      << <<Num(10), Rat(171, 2), Str("A")>>,
         <<Num(20), Num(90),     Str("B")>>,
         <<Num(30), Rat(157, 2), Str("A")>>,
         <<Num(40), Num(92),     Str("B")>>,
         <<Num(50), Num(88),     Str("A")>> >>)

\* pd.DataFrame()
empty_df == DataFrame(<<>>, <<>>)

Fixtures == {sample_dataframe, dirty_dataframe, numeric_dataframe, empty_df}

SmallColumns == <<"dept", "val">>

DeptCells == {Str("A"), Str("B"), NaN}

ValCells == {Num(1), Num(2), NaN}

SmallRows == {<<d, v>> : d \in DeptCells, v \in ValCells}

TablesOf(n) == {DataFrame(SmallColumns, rows) : rows \in [1..n -> SmallRows]}

SmallTables == UNION {TablesOf(n) : n \in 0..MaxRows}

(***************************************************************************)
(* The caller: the arguments it passes.                                    *)
(***************************************************************************)
\* (before: the length of what a save found in the file at its path;
\* rng: the global generator as create_sample_data found it; again: whether
\* create_sample_data was called with this num_rows before; frames: the
\* stack frames the interpreter allows a call of factorial)
NoCall ==
    [op |-> "none", column |-> "", value |-> NaN, agg |-> "",
     operation |-> "", path |-> "", data |-> PyNone, before |-> 0,
     num_rows |-> 0, rng |-> NoGenerator, again |-> FALSE,
     expected_types |-> <<>>, frames |-> 0]

\* the row counts the caller asks for: a negative one, none, and some
SampleSizes == (-1)..MaxSample

NoneMade == [n \in SampleSizes |-> NoRet]

\* every column of the table, and one it does not have
ColumnArgs(t) == Columns(t) \cup {"invalid_column"}

CellsOf(t) == UNION {Range(t.rows[i]) : i \in 1..Len(t.rows)}

\* every value the table holds, one it does not, and the missing marker
ValueArgs(t) == CellsOf(t) \cup {Str("Nonexistent"), NaN}

Init ==
    /\ df \in Fixtures \cup SmallTables
    /\ call = NoCall
    /\ ret = NoRet
    /\ files = [p \in Paths |-> Absent]
    /\ saved = [p \in Paths |-> NotSaved]
    /\ rng = NoGenerator
    /\ made = NoneMade

\* Calls are synchronous and made one at a time: the caller makes a call when
\* it holds no result, and takes the result before it makes the next.
Idle == call.op = "none"

Clean ==
    /\ Idle
    /\ call' = [NoCall EXCEPT !.op = "clean_data"]
    /\ ret' = clean_data(df)
    /\ df' = df_after("clean_data", df)
    /\ UNCHANGED <<files, saved, rng, made>>

Filter ==
    /\ Idle
    /\ \E column \in ColumnArgs(df), value \in ValueArgs(df) :
        /\ call' = [NoCall EXCEPT !.op = "filter_by_column",
                                  !.column = column, !.value = value]
        /\ ret' = filter_by_column(df, column, value)
    /\ df' = df_after("filter_by_column", df)
    /\ UNCHANGED <<files, saved, rng, made>>

Statistics ==
    /\ Idle
    /\ \E column \in ColumnArgs(df) :
        /\ call' = [NoCall EXCEPT !.op = "calculate_statistics",
                                  !.column = column]
        /\ ret' = calculate_statistics(df, column)
    /\ df' = df_after("calculate_statistics", df)
    /\ UNCHANGED <<files, saved, rng, made>>

GroupBy ==
    /\ Idle
    /\ \E group_column \in ColumnArgs(df), agg_column \in ColumnArgs(df),
          operation \in valid_operations \cup {"invalid"} :
        \E r \in group_by_column(df, group_column, agg_column, operation) :
            /\ call' = [NoCall EXCEPT !.op = "group_by_column",
                                      !.column = group_column,
                                      !.agg = agg_column,
                                      !.operation = operation]
            /\ ret' = r
    /\ df' = df_after("group_by_column", df)
    /\ UNCHANGED <<files, saved, rng, made>>

\* the caller goes on with the table a load or a transformation returned
\* (df = load_csv_data(...); cleaned_df = clean_data(df);
\* filter_by_column(cleaned_df, ...))
Rebind ==
    /\ call.op \in {"load_csv_data", "clean_data", "filter_by_column"}
    /\ ret.kind = "table"
    /\ df' = ret.table
    /\ call' = NoCall
    /\ ret' = NoRet
    /\ UNCHANGED <<files, saved, rng, made>>

(***************************************************************************)
(* The mappings the caller saves, and the files that exist beforehand.     *)
(***************************************************************************)
JsonKeys == {PyStr("key"), PyStr("1"), PyInt(1)}

JsonValues ==
    { PyStr("value"), PyInt(1), PyBool(TRUE), PyNone, PyNaN,
      PyList(<<PyInt(1), PyInt(2), PyInt(3)>>),
      PyTuple(<<PyInt(1), PyInt(2)>>),
      PyDict(<< <<PyStr("k"), PyInt(1)>> >>),
      PyDict(<< <<PyInt(2), PyStr("x")>> >>),
      PySet,
      PyList(<<PyInt(1), PySet>>) }

\* test_save_to_json: {"key": "value", "numbers": [1, 2, 3]}
test_data ==
    PyDict(<< <<PyStr("key"), PyStr("value")>>,
              <<PyStr("numbers"), PyList(<<PyInt(1), PyInt(2), PyInt(3)>>)>> >>)

\* the dicts of at most MaxItems items with distinct keys
Mappings ==
    UNION {{PyDict(items) :
              items \in {it \in [1..n -> JsonKeys \X JsonValues] :
                           \A i, h \in 1..n : i # h => it[i][1] # it[h][1]}} :
             n \in 0..MaxItems}
        \cup {test_data}

\* tests/test_data_processor.py, fixture temp_json_file:
\* {"test": "data", "numbers": [1, 2, 3]}
temp_json_file ==
    File(<< Tok("{"), TokString("test"), Tok(":"), TokString("data"), Tok(","),
            TokString("numbers"), Tok(":"), Tok("["), TokNumber(1), Tok(","),
            TokNumber(2), Tok(","), TokNumber(3), Tok("]"), Tok("}") >>)

\* test_load_from_json_invalid_json: {"invalid": json}
invalid_json_file ==
    File(<< Tok("{"), TokString("invalid"), Tok(":"), Tok("json"), Tok("}") >>)

InitJson ==
    /\ df = empty_df
    /\ call = NoCall
    /\ ret = NoRet
    /\ files \in {[p \in Paths |-> IF Writable(p) THEN f ELSE Absent] :
                    f \in {Absent, temp_json_file, invalid_json_file}}
    /\ saved = [p \in Paths |-> NotSaved]
    /\ rng = NoGenerator
    /\ made = NoneMade

SaveJson ==
    /\ Idle
    /\ \E file_path \in Paths :
       \E data \in (IF Writable(file_path) THEN Mappings ELSE {test_data}) :
        /\ call' = [NoCall EXCEPT !.op = "save_to_json",
                                  !.path = file_path, !.data = data,
                                  !.before = Len(files[file_path].content)]
        /\ files' = save_to_json_file(files, data, file_path)
        /\ ret' = save_to_json_ret(files, data, file_path)
        /\ saved' = IF save_to_json_ret(files, data, file_path).kind = "ok"
                    THEN [saved EXCEPT ![file_path] = Saved(data)]
                    ELSE IF Writable(file_path)
                    THEN [saved EXCEPT ![file_path] = NotSaved]
                    ELSE saved
    /\ UNCHANGED <<df, rng, made>>

LoadJson ==
    /\ Idle
    /\ \E file_path \in Paths :
        /\ call' = [NoCall EXCEPT !.op = "load_from_json", !.path = file_path]
        /\ ret' = load_from_json(files, file_path)
    /\ UNCHANGED <<df, files, saved, rng, made>>

\* the caller consumes or drops the result and keeps its table
Discard ==
    /\ call.op # "none"
    /\ call' = NoCall
    /\ ret' = NoRet
    /\ UNCHANGED <<df, files, saved, rng, made>>

Next == Clean \/ Filter \/ Statistics \/ GroupBy \/ Rebind \/ Discard

Spec == Init /\ [][Next]_vars

NextJson == SaveJson \/ LoadJson \/ Discard

SpecJson == InitJson /\ [][NextJson]_vars

(***************************************************************************)
(* The caller of create_sample_data, who may use np.random itself.         *)
(***************************************************************************)
InitSample ==
    /\ df = empty_df
    /\ call = NoCall
    /\ ret = NoRet
    /\ files = [p \in Paths |-> Absent]
    /\ saved = [p \in Paths |-> NotSaved]
    /\ rng \in Generators
    /\ made = NoneMade

Sample ==
    /\ Idle
    /\ \E num_rows \in SampleSizes :
        /\ call' = [NoCall EXCEPT !.op = "create_sample_data",
                                  !.num_rows = num_rows,
                                  !.rng = rng,
                                  !.again = made[num_rows].kind # "none"]
        /\ ret' = create_sample_data(rng, num_rows).ret
        /\ rng' = create_sample_data(rng, num_rows).rng
        /\ made' = IF made[num_rows].kind = "none"
                   THEN [made EXCEPT
                           ![num_rows] = create_sample_data(rng, num_rows).ret]
                   ELSE made
    /\ UNCHANGED <<df, files, saved>>

\* the caller draws from the global generator (np.random.random())
CallerRandom ==
    /\ Idle
    /\ rng' = advance(rng, 1)
    /\ UNCHANGED <<df, call, ret, files, saved, made>>

CallerSeeds == {0, 7}

\* the caller seeds the global generator (np.random.seed(s))
CallerSeed ==
    /\ Idle
    /\ \E s \in CallerSeeds : rng' = np_random_seed(rng, s)
    /\ UNCHANGED <<df, call, ret, files, saved, made>>

NextSample == Sample \/ CallerRandom \/ CallerSeed \/ Discard

SpecSample == InitSample /\ [][NextSample]_vars

(***************************************************************************)
(* The caller of load_csv_data, who goes on to clean and filter the table  *)
(* it loaded (test_data_processing_workflow).                              *)
(***************************************************************************)
\* tests/test_data_processor.py, fixture temp_csv_file
temp_csv_file ==
    File(<< <<"name", "age", "city">>,
            <<"Alice", "25", "NYC">>,
            <<"Bob", "30", "LA">>,
            <<"Charlie", "35", "Chicago">> >>)

CsvHeader == <<"name", "age">>

CsvLines == {<<name, age>> : name \in {"Alice", "Bob", ""}, age \in {"25", "30", ""}}

\* the files of a header and at most MaxLines rows, the same with a blank
\* line after the header, the file of nothing, the file of a blank line, and
\* the fixture
CsvFiles ==
    UNION {{File(<<CsvHeader>> \o data) : data \in [1..n -> CsvLines]} :
             n \in 0..MaxLines}
      \cup {File(<<CsvHeader, <<>>, line>>) : line \in CsvLines}
      \cup {File(<<>>), File(<< <<>> >>), File(<< <<>>, CsvHeader >>),
            temp_csv_file}

CsvPaths == {"data.csv", "nonexistent_file.csv"}

InitCsv ==
    /\ df = empty_df
    /\ call = NoCall
    /\ ret = NoRet
    /\ files \in {[p \in CsvPaths |-> IF p = "data.csv" THEN f ELSE Absent] :
                    f \in CsvFiles}
    /\ saved = [p \in Paths |-> NotSaved]
    /\ rng = NoGenerator
    /\ made = NoneMade

LoadCsv ==
    /\ Idle
    /\ \E file_path \in CsvPaths :
        /\ call' = [NoCall EXCEPT !.op = "load_csv_data", !.path = file_path]
        /\ ret' = load_csv_data(files, file_path)
    /\ UNCHANGED <<df, files, saved, rng, made>>

NextCsv == LoadCsv \/ Rebind \/ Clean \/ Filter \/ Discard

SpecCsv == InitCsv /\ [][NextCsv]_vars

(***************************************************************************)
(* The caller of all the table functions, validate_data_types included,    *)
(* on the fixtures and the short tables.                                   *)
(***************************************************************************)
ShortTables == UNION {TablesOf(n) : n \in 0..MaxShort}

\* expected types: the two names the function knows, a dtype, a piece of a
\* dtype, and the empty string
ExpectedTypes == {"numeric", "string", "int64", "int", ""}

ExpectedItems(t) == ColumnArgs(t) \X ExpectedTypes

\* the dicts of at most MaxPairs items (their keys differ)
ExpectedArgs(t) ==
    UNION {{e \in [1..n -> ExpectedItems(t)] :
              \A i, h \in 1..n : i # h => e[i][1] # e[h][1]} :
             n \in 0..MaxPairs}

InitOps ==
    /\ df \in Fixtures \cup ShortTables
    /\ call = NoCall
    /\ ret = NoRet
    /\ files = [p \in Paths |-> Absent]
    /\ saved = [p \in Paths |-> NotSaved]
    /\ rng = NoGenerator
    /\ made = NoneMade

Validate ==
    /\ Idle
    /\ \E expected_types \in ExpectedArgs(df) :
        /\ call' = [NoCall EXCEPT !.op = "validate_data_types",
                                  !.expected_types = expected_types]
        /\ ret' = validate_data_types(df, expected_types)
    /\ df' = df_after("validate_data_types", df)
    /\ UNCHANGED <<files, saved, rng, made>>

NextOps ==
    Clean \/ Filter \/ Statistics \/ GroupBy \/ Validate \/ Rebind \/ Discard

SpecOps == InitOps /\ [][NextOps]_vars

(***************************************************************************)
(* src/src/calculator.py: factorial.  A Python int has no width, so the    *)
(* value returned is held as the sequence of its decimal digits, the       *)
(* lowest first.  Every call of factorial takes a frame of the             *)
(* interpreter's stack: frames is the number of frames the interpreter     *)
(* still allows where the caller stands (sys.getrecursionlimit() less the  *)
(* caller's depth), and a call made with none left raises RecursionError.  *)
(***************************************************************************)
MaxN == 15

MaxFrames == 16

\* a float, by its text
PyFloat(s) == [t |-> "float", n |-> 0, s |-> s, items |-> <<>>]

ReturnInt(digits) == [NoRet EXCEPT !.kind = "int", !.value = digits]

\* digits * m + carry, for an int m >= 0
RECURSIVE long_mul(_, _, _)
long_mul(digits, m, carry) ==
    IF digits = <<>>
    THEN IF carry = 0 THEN <<>>
         ELSE <<carry % 10>> \o long_mul(<<>>, m, carry \div 10)
    ELSE <<(Head(digits) * m + carry) % 10>>
            \o long_mul(Tail(digits), m, (Head(digits) * m + carry) \div 10)

\* isinstance(n, int): bool is a subclass of int
isinstance_int(n) == n.t \in {"int", "bool"}

RECURSIVE factorial(_, _)
factorial(n, frames) ==
    IF frames = 0
    THEN Raise("RecursionError", "maximum recursion depth exceeded")
    ELSE IF ~isinstance_int(n)
    THEN Raise("TypeError", "Factorial is only defined for integers")
    ELSE IF n.n < 0
    THEN Raise("ValueError", "Factorial is not defined for negative numbers")
    ELSE IF n.n <= 1 THEN ReturnInt(<<1>>)
    ELSE LET r == factorial(PyInt(n.n - 1), frames - 1)
         IN  IF r.kind = "error" THEN r
             ELSE ReturnInt(long_mul(r.value, n.n, 0))

\* the arguments of the tests (0, 1, 5, 10, 15, -1, 5.5, "5") among the ints
\* from -2 to MaxN, the bools, and values that are not ints
FactorialArgs ==
    {PyInt(n) : n \in (-2)..MaxN}
        \cup {PyBool(TRUE), PyBool(FALSE)}
        \cup {PyFloat("5.5"), PyFloat("5.0"), PyFloat("-1.5"), PyNaN,
              PyStr("5"), PyNone}

InitFactorial ==
    /\ df = empty_df
    /\ call = NoCall
    /\ ret = NoRet
    /\ files = [p \in Paths |-> Absent]
    /\ saved = [p \in Paths |-> NotSaved]
    /\ rng = NoGenerator
    /\ made = NoneMade

Factorial ==
    /\ Idle
    /\ \E n \in FactorialArgs, frames \in 1..MaxFrames :
        /\ call' = [NoCall EXCEPT !.op = "factorial", !.data = n,
                                  !.frames = frames]
        /\ ret' = factorial(n, frames)
    /\ UNCHANGED <<df, files, saved, rng, made>>

NextFactorial == Factorial \/ Discard

SpecFactorial == InitFactorial /\ [][NextFactorial]_vars

(***************************************************************************)
(* Properties.                                                             *)
(***************************************************************************)
HasNa(t) == \E i \in 1..Len(t.rows) : \E j \in 1..Len(t.columns) : isna(t.rows[i][j])

HasDuplicates(t) ==
    \E i, h \in 1..Len(t.rows) : i # h /\ t.rows[i] = t.rows[h]

\* the k-th smallest element of a set of positions
Kth(S, k) == CHOOSE i \in S : Cardinality({h \in S : h < i}) = k - 1

\* r holds exactly the rows of t at the positions S, in their order in t,
\* with the columns and dtypes of t, numbered 0..n-1
IsSelection(r, t, S) ==
    /\ r.columns = t.columns
    /\ r.dtypes = t.dtypes
    /\ Len(r.rows) = Cardinality(S)
    /\ \A k \in 1..Len(r.rows) : r.rows[k] = t.rows[Kth(S, k)]
    /\ Len(r.rows) <= Len(t.rows)
    /\ r.index = [k \in 1..Len(r.rows) |-> k - 1]

\* C1: the result of clean_data holds no missing value in any column, no two
\* rows equal in all columns, and its row index is exactly 0..n-1.
C1_CleanOutput ==
    call.op = "clean_data" =>
        /\ ret.kind = "table"
        /\ ~HasNa(ret.table)
        /\ ~HasDuplicates(ret.table)
        /\ DOMAIN ret.table.index = 1..Len(ret.table.rows)
        /\ \A i \in 1..Len(ret.table.rows) : ret.table.index[i] = i - 1

\* a table with missing values and duplicates was cleaned, and rows are left
C1_Witness ==
    /\ call.op = "clean_data"
    /\ HasNa(df)
    /\ HasDuplicates(dropna(df))
    /\ Len(ret.table.rows) >= 2

\* C2: clean_data is idempotent: cleaning the result of clean_data returns
\* it unchanged in rows, row order, columns and row index.
C2_CleanIdempotent ==
    call.op = "clean_data" =>
        /\ ret.kind = "table"
        /\ clean_data(ret.table).kind = "table"
        /\ clean_data(ret.table).table = ret.table

\* the first clean_data changed the table, and rows are left to clean again
C2_Witness ==
    /\ call.op = "clean_data"
    /\ ret.table # df
    /\ HasNa(df)
    /\ HasDuplicates(df)
    /\ Len(ret.table.rows) >= 2

\* C3 as stated: for a column of the table and any value v, the result is
\* exactly the rows whose value in the column equals v, in their order,
\* numbered 0..n-1.
C3_FilterAsStated ==
    (call.op = "filter_by_column" /\ call.column \in Columns(df)) =>
        /\ ret.kind = "table"
        /\ IsSelection(ret.table, df,
             {i \in 1..Len(df.rows) : Series(df, call.column)[i] = call.value})

\* C3 amended: that holds for every value v other than the missing-value
\* marker; for the missing-value marker the result has no rows, whatever the
\* column holds.
C3_FilterSelectsMatches ==
    (call.op = "filter_by_column" /\ call.column \in Columns(df)) =>
        /\ ret.kind = "table"
        /\ IsSelection(ret.table, df,
             IF isna(call.value) THEN {}
             ELSE {i \in 1..Len(df.rows) :
                     Series(df, call.column)[i] = call.value})

\* some rows match and some do not, and a match follows a non-match
C3_Witness ==
    /\ call.op = "filter_by_column"
    /\ call.column \in Columns(df)
    /\ ~isna(call.value)
    /\ Len(ret.table.rows) >= 2
    /\ Len(ret.table.rows) < Len(df.rows)
    /\ Series(df, call.column)[1] # call.value

\* C4: filter_by_column raises KeyError exactly when the column is not a
\* column of the table; with the column present and no matching row it
\* returns an empty table with the columns of the input.
C4_FilterUnknownColumn ==
    call.op = "filter_by_column" =>
        /\ (ret.kind = "error" /\ ret.err = "KeyError")
              <=> call.column \notin Columns(df)
        /\ ret.kind = "error" <=> call.column \notin Columns(df)
        /\ ( /\ call.column \in Columns(df)
             /\ \A i \in 1..Len(df.rows) :
                   Series(df, call.column)[i] # call.value )
              => /\ ret.kind = "table"
                 /\ ret.table.rows = <<>>
                 /\ ret.table.index = <<>>
                 /\ ret.table.columns = df.columns

\* a present column of a table with rows, and a value no row holds
C4_Witness ==
    /\ call.op = "filter_by_column"
    /\ call.column \in Columns(df)
    /\ Len(df.rows) >= 2
    /\ ret.kind = "table"
    /\ ret.table.rows = <<>>

IsStats == call.op = "calculate_statistics"

UnknownColumn == ret.kind = "error" /\ ret.err = "KeyError"

NotNumeric ==
    ret.kind = "error" /\ ret.err = "ValueError" /\ ret.msg = "Column is not numeric"

\* C5 as stated: KeyError for an absent column; otherwise ValueError whenever
\* any value of the column is not a number; a record is returned only for a
\* column whose values are all numbers.
C5_StatisticsAsStated ==
    IsStats =>
        /\ call.column \notin Columns(df) => UnknownColumn
        /\ ( /\ call.column \in Columns(df)
             /\ \E i \in 1..Len(df.rows) : ~IsNum(Series(df, call.column)[i]) )
              => NotNumeric
        /\ ret.kind = "record" =>
              /\ call.column \in Columns(df)
              /\ \A i \in 1..Len(df.rows) : IsNum(Series(df, call.column)[i])

\* C5 amended: KeyError for an absent column; otherwise ValueError whenever
\* any value of the column is a text; a record is returned only for a column
\* whose values are all numbers or missing-value markers.
C5_StatisticsErrors ==
    IsStats =>
        /\ call.column \notin Columns(df) => UnknownColumn
        /\ ( /\ call.column \in Columns(df)
             /\ \E i \in 1..Len(df.rows) : IsStr(Series(df, call.column)[i]) )
              => NotNumeric
        /\ ret.kind = "record" =>
              /\ call.column \in Columns(df)
              /\ \A i \in 1..Len(df.rows) :
                    \/ IsNum(Series(df, call.column)[i])
                    \/ isna(Series(df, call.column)[i])
        /\ ret.kind \in {"record", "error"}

\* statistics of a column that holds a text among other values is refused
C5_Witness ==
    /\ IsStats
    /\ NotNumeric
    /\ \E i \in 1..Len(df.rows) : IsStr(Series(df, call.column)[i])
    /\ \E i \in 1..Len(df.rows) : isna(Series(df, call.column)[i])

\* the positions of the non-missing values of a column
Present(t, c) == {i \in 1..Len(t.rows) : ~isna(Series(t, c)[i])}

\* the sum of the numbers of column c at the positions S
RECURSIVE SumAt(_, _, _)
SumAt(t, c, S) ==
    IF S = {} THEN Num(0)
    ELSE LET i == CHOOSE x \in S : TRUE
         IN  Add(SumAt(t, c, S \ {i}), Series(t, c)[i])

LessEq(a, b) == a = b \/ CellLess(a, b)

\* m is the least (greatest) of the values of column c at the positions S
IsLeast(m, t, c, S) ==
    /\ \E i \in S : Series(t, c)[i] = m
    /\ \A i \in S : LessEq(m, Series(t, c)[i])

IsGreatest(m, t, c, S) ==
    /\ \E i \in S : Series(t, c)[i] = m
    /\ \A i \in S : LessEq(Series(t, c)[i], m)

\* v is the k-th smallest of the values of column c at the positions S
IsKthValue(v, k, t, c, S) ==
    /\ \E i \in S : Series(t, c)[i] = v
    /\ Cardinality({i \in S : CellLess(Series(t, c)[i], v)}) <= k - 1
    /\ Cardinality({i \in S : LessEq(Series(t, c)[i], v)}) >= k

\* m is the arithmetic mean of the values of column c at the positions S
IsMean(m, t, c, S) ==
    IsNum(m) /\ Mul(m, Num(Cardinality(S))) = SumAt(t, c, S)

\* m is the median of the values of column c at the positions S
IsMedian(m, t, c, S) ==
    LET n == Cardinality(S)
    IN  IF n % 2 = 1
        THEN IsKthValue(m, (n + 1) \div 2, t, c, S)
        ELSE \E i, h \in S :
                /\ IsKthValue(Series(t, c)[i], n \div 2, t, c, S)
                /\ IsKthValue(Series(t, c)[h], n \div 2 + 1, t, c, S)
                /\ Mul(m, Num(2)) = Add(Series(t, c)[i], Series(t, c)[h])

\* C6: the record of a numeric column has exactly the keys mean, median, std,
\* min, max, count; count is the number of non-missing values; over these
\* values min and max are the least and the greatest, mean the arithmetic
\* mean and median the middle value (the mean of the two middle values for
\* an even number); [10,20,30,40,50] gives mean 30, median 30, min 10,
\* max 50, count 5.
C6_StatisticsRecord ==
    (IsStats /\ ret.kind = "record") =>
        LET c == call.column
            S == Present(df, c)
        IN  /\ DOMAIN ret.rec = {"mean", "median", "std", "min", "max", "count"}
            /\ ret.rec.count = Num(Cardinality(S))
            /\ S # {} =>
                  /\ IsLeast(ret.rec.min, df, c, S)
                  /\ IsGreatest(ret.rec.max, df, c, S)
                  /\ IsMean(ret.rec.mean, df, c, S)
                  /\ IsMedian(ret.rec.median, df, c, S)
            /\ (df = numeric_dataframe /\ c = "values") =>
                  /\ ret.rec.mean = Num(30)
                  /\ ret.rec.median = Num(30)
                  /\ ret.rec.min = Num(10)
                  /\ ret.rec.max = Num(50)
                  /\ ret.rec.count = Num(5)

\* the statistics of the column values = [10,20,30,40,50] of the fixture
C6_Witness ==
    /\ IsStats
    /\ ret.kind = "record"
    /\ df = numeric_dataframe
    /\ call.column = "values"
    /\ ret.rec.mean = Num(30)

\* the statistics of a column with a missing value and two different numbers
C6_WitnessMissing ==
    /\ IsStats
    /\ ret.kind = "record"
    /\ \E i \in 1..Len(df.rows) : isna(Series(df, call.column)[i])
    /\ Cardinality(Present(df, call.column)) = 2
    /\ ret.rec.min # ret.rec.max

IsGroupBy == call.op = "group_by_column"

\* both columns are present and the operation is one of the five
GroupArgsValid ==
    /\ call.column \in Columns(df)
    /\ call.agg \in Columns(df)
    /\ call.operation \in valid_operations

\* the result has exactly the two columns g and a, one row per value of the
\* set Keys, in ascending order of the group value
IsGrouping(r, g, a, Keys) ==
    /\ r.columns = <<g, a>>
    /\ \A k \in 1..Len(r.rows) : Len(r.rows[k]) = 2
    /\ {r.rows[k][1] : k \in 1..Len(r.rows)} = Keys
    /\ Len(r.rows) = Cardinality(Keys)
    /\ \A k \in 1..(Len(r.rows) - 1) : CellLess(r.rows[k][1], r.rows[k + 1][1])

\* C7 as stated: with both columns present and a supported operation the
\* call returns a table of exactly the two columns g and a, with exactly one
\* row per distinct value occurring in column g, sorted by group value.
C7_GroupByAsStated ==
    (IsGroupBy /\ GroupArgsValid) =>
        /\ ret.kind = "table"
        /\ IsGrouping(ret.table, call.column, call.agg,
                      Range(Series(df, call.column)))

\* C7 amended: every table the call returns has exactly the two columns g
\* and a and exactly one row per distinct non-missing value of column g,
\* sorted ascending by group value (rows whose group value is missing belong
\* to no group); with both columns present, g different from a and a
\* supported operation, a table is returned whenever column a is numeric or
\* the operation is count.  With g = a, and for the mean of a text column,
\* the call raises instead.
C7_GroupByShape ==
    (IsGroupBy /\ GroupArgsValid) =>
        /\ ret.kind = "table" =>
              /\ call.column # call.agg
              /\ IsGrouping(ret.table, call.column, call.agg,
                            {c \in Range(Series(df, call.column)) : ~isna(c)})
        /\ ( /\ call.column # call.agg
             /\ \/ is_numeric_dtype(Dtype(df, call.agg))
                \/ call.operation = "count" )
              => ret.kind = "table"
        /\ call.column = call.agg => ret.kind = "error"
        /\ ( /\ call.operation = "mean"
             /\ \E i \in 1..Len(df.rows) :
                   /\ ~isna(Series(df, call.column)[i])
                   /\ IsStr(Series(df, call.agg)[i]) )
              => ret.kind = "error"

\* three groups came back, from a table whose groups are not in sorted order
C7_Witness ==
    /\ IsGroupBy
    /\ ret.kind = "table"
    /\ Len(ret.table.rows) = 3
    /\ ret.table.rows[1][1] # Series(df, call.column)[1]

\* the positions of the rows of group x that hold a value in column a
GroupAt(t, g, a, x) ==
    {i \in 1..Len(t.rows) : Series(t, g)[i] = x /\ ~isna(Series(t, a)[i])}

\* the texts of column c at the positions S, joined in row order
RECURSIVE JoinAt(_, _, _)
JoinAt(t, c, S) ==
    IF S = {} THEN ""
    ELSE LET i == CHOOSE x \in S : \A h \in S : h <= x
         IN  JoinAt(t, c, S \ {i}) \o Series(t, c)[i].s

\* v is operation applied to the values of column a at the positions S
IsAggregate(v, operation, t, a, S) ==
    CASE operation = "count" -> v = Num(Cardinality(S))
      [] operation = "sum"   ->
            IF S = {} THEN v = Num(0)
            ELSE IF \A i \in S : IsNum(Series(t, a)[i])
            THEN v = SumAt(t, a, S)
            ELSE v = Str(JoinAt(t, a, S))
      [] operation = "mean"  ->
            IF S = {} THEN isna(v) ELSE IsMean(v, t, a, S)
      [] operation = "min"   ->
            IF S = {} THEN isna(v) ELSE IsLeast(v, t, a, S)
      [] operation = "max"   ->
            IF S = {} THEN isna(v) ELSE IsGreatest(v, t, a, S)

C8_WitnessGroups ==
    /\ IsGroupBy
    /\ ret.kind = "table"
    /\ call.operation = "mean"
    /\ Len(ret.table.rows) = 2
    /\ \E k \in 1..2 : ret.table.rows[k][2] = Rat(3, 2)
    /\ \E k \in 1..2 : isna(ret.table.rows[k][2])

UnsupportedOperation ==
    /\ ret.kind = "error"
    /\ ret.err = "ValueError"
    /\ ret.msg = "Operation not supported"

GroupColumnAbsent ==
    call.column \notin Columns(df) \/ call.agg \notin Columns(df)

C9_WitnessOperation ==
    /\ IsGroupBy
    /\ ~GroupColumnAbsent
    /\ UnsupportedOperation
    /\ Len(df.rows) >= 1

IsLoad == call.op = "load_from_json"

RECURSIVE IsJsonNative(_)
IsJsonNative(v) ==
    CASE v.t \in {"str", "int", "bool", "none"} -> TRUE
      [] v.t = "list" -> \A i \in 1..Len(v.items) : IsJsonNative(v.items[i])
      [] v.t = "dict" ->
            \A i \in 1..Len(v.items) :
                v.items[i][1].t = "str" /\ IsJsonNative(v.items[i][2])
      [] OTHER -> FALSE

RECURSIVE ValueEnd(_, _, _), ElementsEnd(_, _, _), MembersEnd(_, _, _)
ValueEnd(toks, i, lits) ==
    IF i > Len(toks) THEN 0
    ELSE CASE toks[i].t \in {"string", "number"} \cup lits -> i + 1
           [] toks[i].t = "[" ->
                 IF i < Len(toks) /\ toks[i + 1].t = "]" THEN i + 2
                 ELSE ElementsEnd(toks, i + 1, lits)
           [] toks[i].t = "{" ->
                 IF i < Len(toks) /\ toks[i + 1].t = "}" THEN i + 2
                 ELSE MembersEnd(toks, i + 1, lits)
           [] OTHER -> 0

\* value ( "," value )* "]"
ElementsEnd(toks, i, lits) ==
    LET e == ValueEnd(toks, i, lits)
    IN  IF e = 0 \/ e > Len(toks) THEN 0
        ELSE IF toks[e].t = "]" THEN e + 1
        ELSE IF toks[e].t = "," THEN ElementsEnd(toks, e + 1, lits)
        ELSE 0

\* string ":" value ( "," string ":" value )* "}"
MembersEnd(toks, i, lits) ==
    IF i + 1 > Len(toks) \/ toks[i].t # "string" \/ toks[i + 1].t # ":" THEN 0
    ELSE LET e == ValueEnd(toks, i + 2, lits)
         IN  IF e = 0 \/ e > Len(toks) THEN 0
             ELSE IF toks[e].t = "}" THEN e + 1
             ELSE IF toks[e].t = "," THEN MembersEnd(toks, e + 1, lits)
             ELSE 0

JsonLiterals == {"true", "false", "null"}

\* the names Python's json module reads and writes beyond the standard (of
\* NaN, Infinity and -Infinity the files of the model hold NaN)
PythonConstants == {"NaN"}

\* the content is one JSON value, by the standard
IsValidJson(toks) == ValueEnd(toks, 1, JsonLiterals) = Len(toks) + 1

\* the content is one JSON value, with Python's constants allowed in it
IsAcceptedJson(toks) ==
    ValueEnd(toks, 1, JsonLiterals \cup PythonConstants) = Len(toks) + 1

FileNotFound == ret.kind = "error" /\ ret.err = "FileNotFoundError"

JSONDecodeError == ret.kind = "error" /\ ret.err = "JSONDecodeError"

C11_WitnessAbsent == IsLoad /\ ~files[call.path].exists /\ FileNotFound

\* C12 as stated: whenever the last save at a path succeeded, the file there
\* holds exactly the serialization of the mapping saved, and load_from_json
\* of the path returns a mapping equal to it.
C12_OverwriteAsStated ==
    /\ \A p \in Paths : saved[p].known =>
           files[p] = File(json_dump(saved[p].data).toks)
    /\ (IsLoad /\ saved[call.path].known) =>
           (ret.kind = "mapping" /\ PyEq(ret.value, saved[call.path].data))

\* C12 amended: whenever the last save at a path succeeded, the file there
\* holds exactly the serialization of the mapping saved, whatever the file
\* held before, and load_from_json of the path returns what that
\* serialization alone reads as: the mapping saved when it has string keys
\* and JSON values only.
C12_Overwrite ==
    /\ \A p \in Paths : saved[p].known =>
           files[p] = File(json_dump(saved[p].data).toks)
    /\ (IsLoad /\ saved[call.path].known) =>
           /\ ret = json_load(json_dump(saved[call.path].data).toks)
           /\ IsJsonNative(saved[call.path].data) =>
                 (ret.kind = "mapping" /\ ret.value = saved[call.path].data)

\* a mapping was saved over a file longer than its serialization
C12_Witness ==
    /\ call.op = "save_to_json"
    /\ ret.kind = "ok"
    /\ saved[call.path] = Saved(call.data)
    /\ call.data.items # <<>>
    /\ call.before > Len(files[call.path].content)

IsSample == call.op = "create_sample_data"

\* C13: a call of create_sample_data returns what the first call with the
\* same num_rows returned, whatever state the global generator was in when
\* either call was made.
C13_SampleDeterministic == IsSample => ret = made[call.num_rows]

\* a second call with the same num_rows, at least one row, made when the
\* global generator was not in the state the seed gives it nor in the state
\* a call with this num_rows leaves it in
C13_Witness ==
    /\ IsSample
    /\ call.again
    /\ call.num_rows >= 1
    /\ ret.kind = "table"
    /\ call.rng # np_random_seed(call.rng, 42)
    /\ call.rng # rng

\* the cells of a column are texts out of a fixed sequence of names
AllAmong(s, names) ==
    \A i \in 1..Len(s) : IsStr(s[i]) /\ s[i].s \in Range(names)

\* what C14 says of the table of a call with num_rows >= 0, but for the
\* maximum of the identifiers
IsSampleTable(t, num_rows) ==
    /\ Len(t.rows) = num_rows
    /\ Series(t, "employee_id") = [i \in 1..num_rows |-> Num(i)]
    /\ AllAmong(Series(t, "department"), departments)
    /\ AllAmong(Series(t, "location"), locations)
    /\ \A i \in 1..num_rows :
          LET y == Series(t, "years_experience")[i]
          IN  IsInt(y) /\ 0 <= y.n /\ y.n < 20

\* C14 as stated: for num_rows >= 0 create_sample_data returns a table of
\* num_rows rows whose employee_id column is 1..num_rows and has the maximum
\* num_rows, whose departments and locations are among the listed ones and
\* whose years_experience are integers in [0, 20).
C14_SampleShapeAsStated ==
    (IsSample /\ call.num_rows >= 0) =>
        /\ ret.kind = "table"
        /\ IsSampleTable(ret.table, call.num_rows)
        /\ series_max(Series(ret.table, "employee_id")) = Num(call.num_rows)

\* C14 amended: as stated, with the maximum of employee_id equal to num_rows
\* for num_rows >= 1; for num_rows = 0 the column is empty and its maximum
\* is the missing value, not 0.
C14_SampleShape ==
    (IsSample /\ call.num_rows >= 0) =>
        /\ ret.kind = "table"
        /\ IsSampleTable(ret.table, call.num_rows)
        /\ series_max(Series(ret.table, "employee_id")) =
              (IF call.num_rows >= 1 THEN Num(call.num_rows) ELSE NaN)

\* a table of two rows or more
C14_Witness ==
    /\ IsSample
    /\ call.num_rows >= 2
    /\ ret.kind = "table"
    /\ Len(ret.table.rows) = call.num_rows

\* the table of no rows
C14_WitnessEmpty ==
    /\ IsSample
    /\ call.num_rows = 0
    /\ ret.kind = "table"
    /\ Columns(ret.table) = Range(sample_columns)

\* C20: no call of a function of the module changes process-global state:
\* the global generator is after the call in the state it was in before.
C20_NoGlobalState == [][call'.op # "none" => rng' = rng]_vars

IsLoadCsv == call.op = "load_csv_data"

\* the lines of a file that are not blank
NonBlank(f) == {i \in 1..Len(f.content) : f.content[i] # <<>>}

\* the rows of a file: its lines that are not blank, but for the header
CsvRowCount(f) == Cardinality(NonBlank(f)) - 1

EmptyDataError == ret.kind = "error" /\ ret.err = "EmptyDataError"

\* C15 as stated: load_csv_data raises FileNotFoundError when the path does
\* not exist, raises EmptyDataError when the file has no row (a header and no
\* rows included), and returns a table only for a file with a row or more.
C15_LoadCsvAsStated ==
    IsLoadCsv =>
        /\ ~files[call.path].exists => FileNotFound
        /\ (files[call.path].exists /\ CsvRowCount(files[call.path]) <= 0)
              => EmptyDataError
        /\ ret.kind = "table" =>
              (files[call.path].exists /\ CsvRowCount(files[call.path]) >= 1)

\* C15 amended: load_csv_data raises FileNotFoundError when the path does not
\* exist, raises EmptyDataError when the file has no line but blank ones, and
\* otherwise returns a table whose columns are the header and which has one
\* row per further line that is not blank: for a header and no rows, a table
\* of no rows.
C15_LoadCsv ==
    IsLoadCsv =>
        /\ ~files[call.path].exists => FileNotFound
        /\ (files[call.path].exists /\ NonBlank(files[call.path]) = {})
              => EmptyDataError
        /\ (files[call.path].exists /\ NonBlank(files[call.path]) # {}) =>
              /\ ret.kind = "table"
              /\ \E h \in NonBlank(files[call.path]) :
                    /\ \A i \in NonBlank(files[call.path]) : h <= i
                    /\ ret.table.columns = files[call.path].content[h]
              /\ Len(ret.table.rows) = CsvRowCount(files[call.path])
              /\ ret.table.index = RangeIndex(CsvRowCount(files[call.path]))

\* a file of a blank line and nothing else is refused
C15_Witness ==
    /\ IsLoadCsv
    /\ files[call.path].exists
    /\ files[call.path].content # <<>>
    /\ EmptyDataError

\* a file of a header and no rows is loaded
C15_WitnessHeader ==
    /\ IsLoadCsv
    /\ files[call.path] = File(<<CsvHeader>>)
    /\ ret.kind = "table"
    /\ ret.table.rows = <<>>

IsValidate == call.op = "validate_data_types"

\* an item of expected_types passes on a table: the column is there, and a
\* type the function knows by name ('numeric', 'string') fits the column's
\* dtype, or any other type occurs in the dtype's name
Passes(t, item) ==
    /\ item[1] \in Columns(t)
    /\ item[2] = "numeric" => Dtype(t, item[1]) \in {"int64", "float64"}
    /\ item[2] = "string" => Dtype(t, item[1]) = "object"
    /\ item[2] \notin {"numeric", "string"} => contains(Dtype(t, item[1]), item[2])

\* C16: validate_data_types returns a boolean and never raises; it returns
\* True exactly when every item of expected_types passes, so False when an
\* item names a column the table does not have, and True for the empty dict.
C16_ValidateAll ==
    IsValidate =>
        /\ ret.kind = "bool"
        /\ ret.bool = (\A i \in 1..Len(call.expected_types) :
                          Passes(df, call.expected_types[i]))
        /\ (\E i \in 1..Len(call.expected_types) :
               call.expected_types[i][1] \notin Columns(df)) => ~ret.bool
        /\ call.expected_types = <<>> => ret.bool

\* two items, the first passes and the second names an absent column
C16_Witness ==
    /\ IsValidate
    /\ Len(call.expected_types) = 2
    /\ Passes(df, call.expected_types[1])
    /\ call.expected_types[2][1] \notin Columns(df)
    /\ ret = ReturnBool(FALSE)

\* two items that pass
C16_WitnessTrue ==
    /\ IsValidate
    /\ Len(call.expected_types) = 2
    /\ ret = ReturnBool(TRUE)

\* C17 as stated: when an item of expected_types names a column the table has
\* and a type that is neither 'numeric' nor 'string' nor the column's dtype,
\* validate_data_types returns False.
C17_ExactTypeTag ==
    (IsValidate /\ \E i \in 1..Len(call.expected_types) :
        /\ call.expected_types[i][1] \in Columns(df)
        /\ call.expected_types[i][2] \notin {"numeric", "string"}
        /\ call.expected_types[i][2] # Dtype(df, call.expected_types[i][1]))
    => ret = ReturnBool(FALSE)

\* the cells of a column that are no texts
NonText(t, column) ==
    {i \in 1..Len(t.rows) : ~IsStr(Series(t, column)[i])}

\* C18 as stated: when an item of expected_types names a column the table has
\* and the type 'string', and the column holds a value that is no text,
\* validate_data_types returns False.
C18_StringAsStated ==
    (IsValidate /\ \E i \in 1..Len(call.expected_types) :
        /\ call.expected_types[i][1] \in Columns(df)
        /\ call.expected_types[i][2] = "string"
        /\ NonText(df, call.expected_types[i][1]) # {})
    => ret = ReturnBool(FALSE)

\* C18 amended: the item is judged by the column's dtype, not value by value:
\* with 'string' for a column whose dtype is not object (a column of numbers,
\* with or without missing values) validate_data_types returns False, and
\* the dict of the one item <<column, 'string'>> is valid exactly when the
\* column's dtype is object, missing values in the column or not.
C18_StringByDtype ==
    IsValidate =>
        /\ (\E i \in 1..Len(call.expected_types) :
              /\ call.expected_types[i][1] \in Columns(df)
              /\ call.expected_types[i][2] = "string"
              /\ Dtype(df, call.expected_types[i][1]) # "object")
           => ret = ReturnBool(FALSE)
        /\ (/\ Len(call.expected_types) = 1
            /\ call.expected_types[1][1] \in Columns(df)
            /\ call.expected_types[1][2] = "string")
           => ret = ReturnBool(Dtype(df, call.expected_types[1][1]) = "object")

\* 'string' for a column of texts and a missing value passes
C18_Witness ==
    /\ IsValidate
    /\ Len(call.expected_types) = 1
    /\ call.expected_types[1][1] \in Columns(df)
    /\ call.expected_types[1][2] = "string"
    /\ \E r \in 1..Len(df.rows) : IsStr(Series(df, call.expected_types[1][1])[r])
    /\ \E r \in 1..Len(df.rows) : isna(Series(df, call.expected_types[1][1])[r])
    /\ ret = ReturnBool(TRUE)

\* 'string' for a column of numbers fails
C18_WitnessNumbers ==
    /\ IsValidate
    /\ Len(call.expected_types) = 1
    /\ call.expected_types[1][1] \in Columns(df)
    /\ call.expected_types[1][2] = "string"
    /\ Dtype(df, call.expected_types[1][1]) = "int64"
    /\ df.rows # <<>>
    /\ ret = ReturnBool(FALSE)

TableFunctions ==
    {"clean_data", "filter_by_column", "calculate_statistics",
     "group_by_column", "validate_data_types"}

C21_NoPartialResult ==
    [][ret'.kind = "error" =>
          /\ ret'.table = NoTable
          /\ ret'.rec = <<>>
          /\ ret'.value = <<>>
          /\ call'.op = "save_to_json" => files' = files]_vars

\* the position in t of the first row equal to row
FirstAt(t, row) ==
    CHOOSE i \in 1..Len(t.rows) :
        t.rows[i] = row /\ \A h \in 1..(i - 1) : t.rows[h] # row

NoNa(row) == \A j \in 1..Len(row) : ~isna(row[j])

\* C22: the rows of clean_data(T) are rows of T, every row of T without a
\* missing value is among them, and they stand in the order of their first
\* occurrences in T: of two rows of the result, the one that comes first is
\* the one whose first occurrence in T comes first.
C22_CleanStableOrder ==
    call.op = "clean_data" =>
        /\ ret.kind = "table"
        /\ ret.table.columns = df.columns
        /\ \A k \in 1..Len(ret.table.rows) : ret.table.rows[k] \in Range(df.rows)
        /\ \A i \in 1..Len(df.rows) :
              NoNa(df.rows[i]) => df.rows[i] \in Range(ret.table.rows)
        /\ \A k, m \in 1..Len(ret.table.rows) :
              k < m => FirstAt(df, ret.table.rows[k]) < FirstAt(df, ret.table.rows[m])

\* a table was cleaned in which another row stands between a row and its
\* duplicate, so that keeping the later of the two would change the order
C22_Witness ==
    /\ call.op = "clean_data"
    /\ ret.kind = "table"
    /\ Len(ret.table.rows) >= 2
    /\ \E i, h, l \in 1..Len(df.rows) :
          /\ i < h /\ h < l
          /\ df.rows[i] = df.rows[l]
          /\ df.rows[h] # df.rows[i]
          /\ NoNa(df.rows[i]) /\ NoNa(df.rows[h])
          /\ \A g \in 1..Len(df.rows) : df.rows[g] = df.rows[h] => g <= h

IsFactorial == call.op = "factorial"

\* the decimal digits of a natural number, the lowest first
RECURSIVE Digits(_)
Digits(n) == IF n < 10 THEN <<n>> ELSE <<n % 10>> \o Digits(n \div 10)

\* the digits of k * (k + 1) * ... * n times the number acc stands for
RECURSIVE ProductUp(_, _, _)
ProductUp(acc, k, n) ==
    IF k > n THEN acc ELSE ProductUp(long_mul(acc, k, 0), k + 1, n)

\* C23: factorial(n) returns n! for every int n >= 0 (1 for 0 and for 1, and
\* the values the tests expect for 5, 10 and 15), raises ValueError for every
\* negative int and TypeError for every argument that is not an int, a
\* negative float included.
C23_Factorial ==
    IsFactorial =>
        /\ (isinstance_int(call.data) /\ call.data.n >= 0) =>
              /\ ret.kind = "int"
              /\ ret.value = ProductUp(<<1>>, 1, call.data.n)
              /\ call.data.n <= 1 => ret.value = <<1>>
              /\ call.data.n = 5 => ret.value = Digits(120)
              /\ call.data.n = 10 => ret.value = Digits(3628800)
              /\ call.data.n = 15 =>
                    ret.value = Digits(4368000) \o Digits(130767)
        /\ (isinstance_int(call.data) /\ call.data.n < 0) =>
              (ret.kind = "error" /\ ret.err = "ValueError")
        /\ ~isinstance_int(call.data) =>
              (ret.kind = "error" /\ ret.err = "TypeError")

\* C24: for a column of the table and any value, cleaning what
\* filter_by_column returned gives the table that filtering the cleaned
\* table by the same column and value gives: the same rows in the same
\* order, the same columns and the same index.
C24_CleanFilterCommute ==
    (call.op = "filter_by_column" /\ call.column \in Columns(df)) =>
        /\ ret.kind = "table"
        /\ clean_data(df).kind = "table"
        /\ clean_data(ret.table)
              = filter_by_column(clean_data(df).table, call.column, call.value)

\* the filter kept a row and its duplicate and dropped another row, of a
\* table with a missing value, so that both functions have rows to remove
\* in either order
C24_Witness ==
    /\ call.op = "filter_by_column"
    /\ call.column \in Columns(df)
    /\ ret.kind = "table"
    /\ HasDuplicates(ret.table)
    /\ Len(ret.table.rows) < Len(df.rows)
    /\ HasNa(df)
    /\ Len(clean_data(df).table.rows) > Len(clean_data(ret.table).table.rows)
    /\ clean_data(ret.table).table.rows # <<>>

=============================================================================
